---- MODULE Spec2Model ----
(***************************************************************************)
(* Model of the self-update engine, Updater::UpdaterService, of            *)
(* src/src/citron/configuration/configure_filesystem.cpp.                  *)
(*                                                                         *)
(* Several specifications share the module:                               *)
(*   SpecParse  ParseUpdateResponse as a function of the feed, the channel *)
(*              and the build identity (inputs drawn in its Init);         *)
(*   SpecSelect the same call on one record, over asset lists of every     *)
(*              extension and tag;                                         *)
(*   SpecHash   the same call on Nightly titles with hexadecimal runs      *)
(*              around the limits of ExtractCommitHash;                    *)
(*   SpecRace   DownloadAndInstallUpdate called from several execution     *)
(*              contexts, statement by statement;                          *)
(*   FairSpec   Spec with every pending completion delivered;              *)
(*   SpecInstall one call of InstallUpdate on directories of files;        *)
(*   SpecHelper the helper script apply_update.bat, command by command,    *)
(*              and FairHelper, the script run to its end;                 *)
(*   SpecBackup calls of CreateBackup and RestoreBackup on the slot;       *)
(*   SpecProgress OnDownloadProgress on the chunks of one transfer;        *)
(*   Spec       the asynchronous orchestrator: CheckForUpdates,            *)
(*              DownloadAndInstallUpdate, CancelUpdate, the finished()     *)
(*              handlers of the replies and the delayed extract/install    *)
(*              step, on both builds (_WIN32 and __linux__).               *)
(* A std::string / QString is a sequence of one-character strings.         *)
(***************************************************************************)
EXTENDS Integers, Sequences, FiniteSets, TLC

VARIABLES
    platform,             \* which #if branch the build took: "win32" | "linux"
    g_citron_variant,     \* Common::g_citron_variant
    g_citron_version,     \* Common::g_citron_version
    g_citron_hash,        \* Common::g_citron_hash
    current_update_info,  \* UpdaterService::current_update_info
    p_response,           \* SpecParse: the response handed to ParseUpdateResponse
    p_channel,            \* SpecParse: the channel handed to ParseUpdateResponse
    p_pc,                 \* SpecParse: "ready" before the call, "done" after it
    p_emitted,            \* SpecParse: the UpdateCheckCompleted signals of the call
    appimage_env,         \* linux: whether the APPIMAGE environment variable is set
    update_in_progress,   \* UpdaterService::update_in_progress
    cancel_requested,     \* UpdaterService::cancel_requested
    current_reply,        \* UpdaterService::current_reply: a reply id, 0 for nullptr
    replies,              \* the QNetworkReply objects created so far, by id
    timers,               \* attempts whose QTimer::singleShot lambda is pending
    signals,              \* the signals emitted so far, in order, per attempt and per check
    attempts,             \* per DownloadAndInstallUpdate attempt: what happened to it
    files,                \* the files the service reads and writes
    t_pc,                 \* SpecRace: where each racing caller is in DownloadAndInstallUpdate
    inst,                 \* SpecInstall: a call of InstallUpdate on directories of files
    helper,               \* SpecHelper: a run of the helper script apply_update.bat
    bk,                   \* SpecBackup: calls of CreateBackup and RestoreBackup
    prog                  \* SpecProgress: calls of OnDownloadProgress during a transfer

parseVars == <<p_response, p_channel, p_pc, p_emitted>>
buildVars == <<platform, g_citron_variant, g_citron_version, g_citron_hash>>
svcVars == <<appimage_env, update_in_progress, cancel_requested, current_reply,
             replies, timers, signals, attempts, files>>
raceVars == <<t_pc>>
toolVars == <<inst, helper, bk, prog>>

----------------------------------------------------------------------------
(* Bounds of the model *)

MaxRecords == 2      \* release records in a feed
MaxFeedAssets == 1   \* assets per release record of a feed
MaxRequests == 3     \* accepted CheckForUpdates and DownloadAndInstallUpdate calls in a run
MaxAssets == 2       \* assets of the release record of SpecSelect
NumThreads == 3      \* execution contexts that call DownloadAndInstallUpdate in SpecRace

----------------------------------------------------------------------------
(* Strings *)

UpperChars == <<"A","B","C","D","E","F","G","H","I","J","K","L","M",
                "N","O","P","Q","R","S","T","U","V","W","X","Y","Z">>
LowerChars == <<"a","b","c","d","e","f","g","h","i","j","k","l","m",
                "n","o","p","q","r","s","t","u","v","w","x","y","z">>
Digits == {"0","1","2","3","4","5","6","7","8","9"}

Lower(c) ==
    IF \E i \in DOMAIN UpperChars : UpperChars[i] = c
    THEN LowerChars[CHOOSE i \in DOMAIN UpperChars : UpperChars[i] = c]
    ELSE c

\* QString::toLower
ToLower(s) == [i \in 1..Len(s) |-> Lower(s[i])]

\* std::string::find(sub) != npos
Find(s, sub) ==
    \E i \in 1..(Len(s) - Len(sub) + 1) : SubSeq(s, i, i + Len(sub) - 1) = sub

\* QString::contains(sub, Qt::CaseInsensitive)
ContainsCI(s, sub) == Find(ToLower(s), ToLower(sub))

\* QString::endsWith(suf, Qt::CaseInsensitive)
EndsWithCI(s, suf) ==
    /\ Len(s) >= Len(suf)
    /\ ToLower(SubSeq(s, Len(s) - Len(suf) + 1, Len(s))) = ToLower(suf)

\* the character class [0-9a-fA-F]
IsHex(c) == c \in Digits \/ Lower(c) \in {"a","b","c","d","e","f"}

HashMinLen == 7
HashMaxLen == 40

RECURSIVE HexRunLen(_, _)
\* length of the maximal run of hexadecimal characters of s that starts at i
HexRunLen(s, i) ==
    IF i > Len(s) \/ ~IsHex(s[i]) THEN 0 ELSE 1 + HexRunLen(s, i + 1)

\* a function that returns its argument whole
ExtractCommitHashWhole(version_string) == version_string

\* std::regex_search with ([0-9a-fA-F]{7,40}): the leftmost match, greedy
ExtractCommitHash(version_string) ==
    LET starts == {i \in 1..Len(version_string) :
                      HexRunLen(version_string, i) >= HashMinLen}
    IN  IF starts = {} THEN <<>>
        ELSE LET i == CHOOSE k \in starts : \A j \in starts : k <= j
                 n == HexRunLen(version_string, i)
                 m == IF n > HashMaxLen THEN HashMaxLen ELSE n
             IN  SubSeq(version_string, i, i + m - 1)

----------------------------------------------------------------------------
(* String literals of the source and of the modelled inputs *)

S_AppImage == <<".","A","p","p","I","m","a","g","e">>
S_zip      == <<".","z","i","p">>
S_PGO      == <<"P","G","O">>
S_v3       == <<"v","3">>
S_aarch64  == <<"a","a","r","c","h","6","4">>
S_x86_64   == <<"x","8","6","_","6","4">>
S_stable   == <<"s","t","a","b","l","e">>
S_nightly  == <<"n","i","g","h","t","l","y">>

ChStable   == <<"S","t","a","b","l","e">>
ChNightly  == <<"N","i","g","h","t","l","y">>

HashA      == <<"a","1","b","2","c","3","d">>
HashB      == <<"f","f","f","f","f","f","f">>
TagA       == <<"v","1",".","2",".","0">>
TagB       == <<"v","1",".","1",".","0">>
TagC       == <<"v","1",".","3",".","0">>
TitleA     == <<"N","i","g","h","t","l","y"," ","B","u","i","l","d"," ","-"," ">> \o HashA
TitleNone  == <<"N","i","g","h","t","l","y">>

FileZip      == <<"c">> \o S_zip
FileZipV3    == <<"c","-">> \o S_v3 \o S_zip
FileZipPGO   == <<"c","-">> \o S_PGO \o S_zip
FileApp      == <<"c">> \o S_AppImage
FileAppV3    == <<"c","-">> \o S_v3 \o S_AppImage
FileAppArm   == <<"c","-">> \o S_aarch64 \o S_AppImage
FileZipArm   == <<"c","-">> \o S_aarch64 \o S_zip
FileAppV3Arm == <<"c","-">> \o S_v3 \o <<"-">> \o S_aarch64 \o S_AppImage

VariantGeneric == S_x86_64
VariantV3      == S_x86_64 \o <<"-">> \o S_v3
VariantArm     == S_aarch64

----------------------------------------------------------------------------
(* ParseUpdateResponse *)

\* an asset object of the feed, with the fields the code reads
Asset(n) == [name |-> n, browser_download_url |-> <<"/">> \o n]

\* DownloadOption built at lines 457-459
Option(asset) == [name |-> asset.name, url |-> asset.browser_download_url]

\* the platform filter: whether the asset is pushed to os_valid
OsValid(name) ==
    IF platform = "linux"
    THEN EndsWithCI(name, S_AppImage)
    ELSE EndsWithCI(name, S_zip) /\ ~ContainsCI(name, S_PGO)

\* the variant filter: whether an os_valid asset is pushed to variant_matched
VariantMatched(name) ==
    IF platform = "linux"
    THEN IF Find(g_citron_variant, S_aarch64) /\ ContainsCI(name, S_aarch64)
         THEN TRUE
         ELSE IF Find(g_citron_variant, S_v3) /\ ContainsCI(name, S_v3)
         THEN TRUE
         ELSE IF ~ContainsCI(name, S_v3) /\ ~ContainsCI(name, S_aarch64)
         THEN Find(g_citron_variant, S_x86_64) /\ ~Find(g_citron_variant, S_v3)
         ELSE FALSE
    ELSE IF Find(g_citron_variant, S_v3) /\ ContainsCI(name, S_v3)
         THEN TRUE
         ELSE ~Find(g_citron_variant, S_v3) /\ ~ContainsCI(name, S_v3)

IsOsValid(asset) == OsValid(asset.name)
IsVariantMatched(asset) == OsValid(asset.name) /\ VariantMatched(asset.name)

ToOptions(assets) == [i \in 1..Len(assets) |-> Option(assets[i])]

\* a selection that applies no filter at all
DownloadOptionsUnfiltered(assets) == ToOptions(assets)

\* a selection that lacks the priority of variant_matched
DownloadOptionsOsValid(assets) == ToOptions(SelectSeq(assets, IsOsValid))

\* the asset loop and the priority rule of line 490
DownloadOptions(assets) ==
    LET os_valid        == ToOptions(SelectSeq(assets, IsOsValid))
        variant_matched == ToOptions(SelectSeq(assets, IsVariantMatched))
    IN  IF variant_matched = <<>> THEN os_valid ELSE variant_matched

\* a lookup that ignores the channel
GetCurrentVersionOfRelease(channel) == g_citron_version

GetCurrentVersion(channel) ==
    IF ToLower(channel) = S_nightly THEN g_citron_hash ELSE g_citron_version

\* latest_v of a release record
LatestVersion(rel_obj, channel) ==
    IF ToLower(channel) = S_stable
    THEN rel_obj.tag_name
    ELSE ExtractCommitHash(rel_obj.name)

\* the UpdateInfo built for a release record (index is the record's place in
\* the feed, kept for the properties)
BuildInfo(rel_obj, channel, i) ==
    LET latest_v == LatestVersion(rel_obj, channel)
    IN  [version          |-> latest_v,
         changelog        |-> rel_obj.body,
         release_date     |-> rel_obj.published_at,
         download_options |-> DownloadOptions(rel_obj.assets),
         is_newer_version |-> (GetCurrentVersion(channel) # latest_v),
         index            |-> i]

\* a loop body that lacks the return of line 498
StopsAtNever(info) == FALSE

\* whether the loop body leaves the loop at this record (lines 492-499)
StopsAt(info) == TRUE

\* a loop body that lacks the continue of line 443
NoVersionIgnored(latest_v) == FALSE

\* if (latest_v.empty()) continue;
NoVersion(latest_v) == latest_v = <<>>

RECURSIVE ScanReleases(_, _, _)
\* the loop over doc.array() from record i on: the sequence of UpdateInfo
\* values emitted with UpdateCheckCompleted
ScanReleases(array, channel, i) ==
    IF i > Len(array) THEN <<>>
    ELSE LET info == BuildInfo(array[i], channel, i)
         IN  IF NoVersion(info.version) THEN ScanReleases(array, channel, i + 1)
             ELSE IF info.download_options # <<>>
             THEN IF StopsAt(info) THEN <<info>>
                  ELSE <<info>> \o ScanReleases(array, channel, i + 1)
             ELSE ScanReleases(array, channel, i + 1)

\* the UpdateCheckCompleted signals emitted by ParseUpdateResponse(response, channel)
ParseUpdateResponse(response, channel) ==
    IF response.json # "array" THEN <<>>
    ELSE ScanReleases(response.array, channel, 1)

----------------------------------------------------------------------------
(* Inputs of SpecParse *)

RECURSIVE SeqsUpTo(_, _)
SeqsUpTo(S, n) ==
    IF n = 0 THEN {<<>>}
    ELSE LET shorter == SeqsUpTo(S, n - 1)
         IN  shorter \cup {Append(s, x) : s \in {t \in shorter : Len(t) = n - 1}, x \in S}

FeedFiles == {FileZip, FileAppV3}

Releases ==
    {[tag_name |-> v.tag, name |-> v.title, body |-> <<"b">>,
      published_at |-> <<"d">>, assets |-> as] :
        v \in {[tag |-> TagA, title |-> TitleA], [tag |-> <<>>, title |-> TitleNone]},
        as \in SeqsUpTo({Asset(n) : n \in FeedFiles}, MaxFeedAssets)}

Responses ==
    {[json |-> "invalid", array |-> <<>>], [json |-> "object", array |-> <<>>]}
    \cup {[json |-> "array", array |-> a] : a \in SeqsUpTo(Releases, MaxRecords)}

Identities ==
    {[variant |-> VariantGeneric, version |-> TagA, hash |-> HashA],
     [variant |-> VariantV3, version |-> TagB, hash |-> HashB],
     [variant |-> VariantGeneric, version |-> TagC, hash |-> HashB]}

\* inputs of SpecSelect: one release record whose asset list is drawn from
\* file names of every extension and tag
SelectFiles ==
    {FileZip, FileZipV3, FileZipPGO, FileZipArm,
     FileApp, FileAppV3, FileAppArm, FileAppV3Arm}

SelectIdentities ==
    {[variant |-> v, version |-> TagB, hash |-> HashB] :
        v \in {VariantGeneric, VariantV3, VariantArm}}

SelectResponses ==
    {[json |-> "array",
      array |-> <<[tag_name |-> TagA, name |-> TitleA, body |-> <<"b">>,
                   published_at |-> <<"d">>, assets |-> as]>>] :
        as \in SeqsUpTo({Asset(n) : n \in SelectFiles}, MaxAssets)}

RECURSIVE HexRun(_)
\* n hexadecimal characters, of both cases; HexRun(7) is "a1b2c3d"
HexRun(n) ==
    LET cycle == <<"a","1","b","2","c","3","d","4","E","5","F","6">>
    IN  IF n = 0 THEN <<>> ELSE Append(HexRun(n - 1), cycle[((n - 1) % Len(cycle)) + 1])

\* inputs of SpecHash: release titles with hexadecimal runs around both limits
HashTitles ==
    {prefix \o HexRun(n) \o suffix :
        prefix \in {<<>>, SubSeq(TitleA, 1, Len(TitleA) - Len(HashA)),
                    <<"a","b","c","1","2"," ">>},
        n \in {0, HashMinLen - 1, HashMinLen, HashMinLen + 1, HashMaxLen, HashMaxLen + 1},
        suffix \in {<<>>, <<" ","x">>, <<" ">> \o HashB}}

HashResponses ==
    {[json |-> "array",
      array |-> <<[tag_name |-> TagA, name |-> t, body |-> <<"b">>,
                   published_at |-> <<"d">>,
                   assets |-> <<Asset(FileZip), Asset(FileApp)>>]>>] :
        t \in HashTitles}

NoInfo == [version |-> <<>>, changelog |-> <<>>, release_date |-> <<>>,
           download_options |-> <<>>, is_newer_version |-> FALSE, index |-> 0]

InitBuild(plat, id) ==
    /\ platform = plat
    /\ g_citron_variant = id.variant
    /\ g_citron_version = id.version
    /\ g_citron_hash = id.hash

----------------------------------------------------------------------------
(* The orchestrator: state *)

ReplyIds == 1..(2 * MaxRequests)
AttemptIds == 1..MaxRequests
Threads == 1..NumThreads
NoCallers == [t \in Threads |-> "none"]

\* a QNetworkReply that was not created yet
NoReply == [kind |-> "none", st |-> "unused", att |-> 0, channel |-> <<>>,
            cancelled |-> FALSE]

\* file contents: no file, the installed executable as found at start, the
\* complete payload of attempt a, bytes that are no complete payload
Missing == [k |-> "missing", a |-> 0]
Original == [k |-> "orig", a |-> 0]
Payload(a) == [k |-> "payload", a |-> a]
Partial == [k |-> "partial", a |-> 0]
\* the leading bytes of data only, left by a short write
Truncated(data) == [k |-> "truncated", a |-> data.a]

NoAttempt == [ph |-> "none", backup |-> "none", cancelled |-> "no",
              failed |-> "none", restore |-> FALSE, wrote |-> FALSE]

NoStaging == [exists |-> FALSE, content |-> Missing, script |-> FALSE]

\* the state after UpdaterService::UpdaterService (lines 240-252)
InitService ==
    /\ appimage_env \in (IF platform = "linux" THEN BOOLEAN ELSE {FALSE})
    /\ update_in_progress = FALSE
    /\ cancel_requested = FALSE
    /\ current_reply = 0
    /\ replies = [r \in ReplyIds |-> NoReply]
    /\ timers = {}
    /\ signals = [att |-> [a \in AttemptIds |-> <<>>], chk |-> [r \in ReplyIds |-> <<>>]]
    /\ attempts = [a \in AttemptIds |-> NoAttempt]
    /\ files = [exe |-> Original, backup |-> Missing, zip |-> Missing,
                extracted |-> Missing, staging |-> NoStaging, newfile |-> Missing]

\* the mutable state as one value, for the handlers that call one another
Cur ==
    [update_in_progress |-> update_in_progress,
     cancel_requested |-> cancel_requested,
     current_reply |-> current_reply,
     current_update_info |-> current_update_info,
     replies |-> replies, timers |-> timers, signals |-> signals,
     attempts |-> attempts, files |-> files]

Commit(t) ==
    /\ update_in_progress' = t.update_in_progress
    /\ cancel_requested' = t.cancel_requested
    /\ current_reply' = t.current_reply
    /\ current_update_info' = t.current_update_info
    /\ replies' = t.replies
    /\ timers' = t.timers
    /\ signals' = t.signals
    /\ attempts' = t.attempts
    /\ files' = t.files

CheckReplies(s) == {r \in ReplyIds : s.replies[r].kind = "check"}
NumChecks == Cardinality({r \in ReplyIds : replies[r].kind = "check"})
NumAttempts == Cardinality({a \in AttemptIds : attempts[a].ph # "none"})

\* network_manager->get(request): the id of the new reply. Check replies take
\* the ids 1..MaxRequests, the download reply of attempt a the id MaxRequests + a
NewAttempt(s) == Cardinality({a \in AttemptIds : s.attempts[a].ph # "none"}) + 1
NewCheckReply(s) == Cardinality(CheckReplies(s)) + 1
NewDownloadReply(s) == MaxRequests + NewAttempt(s)

\* the state of the orchestrator's state machine, read off the code's state
InFlight(a) == attempts[a].ph \in {"downloading", "extracting"}
Checking == \E r \in ReplyIds : replies[r].kind = "check" /\ replies[r].st = "inflight"
OrchestratorState ==
    IF \E a \in AttemptIds : attempts[a].ph = "extracting" THEN "Extracting"
    ELSE IF \E a \in AttemptIds : attempts[a].ph = "downloading" THEN "Downloading"
    ELSE IF Checking THEN "Checking"
    ELSE "Idle"

----------------------------------------------------------------------------
(* The orchestrator: handlers, as functions of the state s *)

\* emit sig(res) from the handler of attempt att (0: none) / check reply chk (0: none)
Emit(s, sig, res, att, chk) ==
    IF att # 0
    THEN [s EXCEPT !.signals.att[att] = Append(@, [sig |-> sig, res |-> res])]
    ELSE [s EXCEPT !.signals.chk[chk] = Append(@, [sig |-> sig, res |-> res])]

\* QNetworkReply::error() != QNetworkReply::NoError
HasError(s, r) == s.replies[r].st \in {"err", "aborted"}

\* QNetworkReply::readAll() of a download reply: the payload once the transfer
\* finished, the bytes received so far before that
ReadAll(s, r) ==
    IF s.replies[r].kind = "download" /\ s.replies[r].st = "ok"
    THEN Payload(s.replies[r].att)
    ELSE Partial

\* the attempt ends: update_in_progress.store(false) of each terminal path
EndAttempt(s, a, why) ==
    [s EXCEPT !.update_in_progress = FALSE,
              !.attempts[a].ph = "ended",
              !.attempts[a].failed = why]

\* RestoreBackup (lines 571-580), called for attempt a
RestoreBackup(s, a, in) ==
    LET s1 == [s EXCEPT !.attempts[a].restore = TRUE]
    IN  IF s.files.backup.k # "missing" /\ in.restore_ok
        THEN [s1 EXCEPT !.files.exe = s.files.backup]
        ELSE s1

\* CreateBackup (lines 563-569): the new state, and whether it returned true
CreateBackupOk(s, in) == in.backup_ok /\ s.files.exe.k # "missing"
\* a snapshot that leaves the slot as it was
CreateBackupSkipped(s, in) == s
CreateBackup(s, in) ==
    IF CreateBackupOk(s, in) THEN [s EXCEPT !.files.backup = s.files.exe] ELSE s

\* InstallUpdate (lines 541-561) with CreateUpdateHelperScript (582-682)
InstallUpdateOk(in) == in.stage = "ok"
InstallUpdate(s, in) ==
    IF in.stage = "mkdir_failed" THEN s
    ELSE [s EXCEPT !.files.staging =
             [exists  |-> TRUE,
              content |-> IF in.stage = "copy_failed" THEN Missing ELSE s.files.extracted,
              script  |-> in.stage = "ok"]]

\* ExtractArchive (lines 504-539)
ExtractArchiveOk(s, in) == in.extract_ok /\ s.files.zip.k # "missing"
ExtractArchive(s, in) ==
    IF ExtractArchiveOk(s, in)
    THEN [s EXCEPT !.files.extracted = s.files.zip]
    ELSE s

\* the lambda of QTimer::singleShot (lines 359-378), scheduled by attempt a
ExtractAndInstall(s, a, in) ==
    LET s0 == [s EXCEPT !.timers = @ \ {a}]
    IN  IF ~ExtractArchiveOk(s0, in)
        THEN EndAttempt(Emit(RestoreBackup(s0, a, in),
                             "UpdateCompleted", "ExtractionError", a, 0), a, "extract")
        ELSE LET s1 == InstallUpdate(ExtractArchive(s0, in), in)
             IN  IF ~InstallUpdateOk(in)
                 THEN EndAttempt(Emit(RestoreBackup(s1, a, in),
                                      "UpdateCompleted", "Failed", a, 0), a, "install")
                 ELSE EndAttempt(Emit(s1, "UpdateCompleted", "Success", a, 0), a, "none")

\* the _WIN32 branch of OnDownloadFinished (lines 351-378)
FinishedWin32(s, a, data, in) ==
    [s EXCEPT !.files.zip = IF in.open_ok THEN data ELSE @,
              !.timers = @ \cup {a},
              !.attempts[a].ph = "extracting"]

\* the __linux__ branch of OnDownloadFinished (lines 381-422)
\* appimage_env (line 380) points into the temporary QByteArray of qgetenv,
\* which is destroyed at the end of that statement: with APPIMAGE set, what
\* lines 381 and 387 read through it (in.env) is the path ("intact"), an empty
\* string ("empty") or other bytes ("garbage"). n_file.write (line 404) may
\* write the data short (in.write_ok); its result is not examined.
FinishedLinux(s, a, data, in) ==
    IF ~appimage_env \/ in.env = "empty"
    THEN EndAttempt(Emit(s, "UpdateError", "none", a, 0), a, "install")
    ELSE LET intact  == in.env = "intact"
             written == IF in.write_ok THEN data ELSE Truncated(data)
             s1 == IF in.backups_enabled
                   THEN IF in.backup_ok /\ intact
                        THEN [s EXCEPT !.files.backup = s.files.exe,
                                       !.attempts[a].backup = "ok"]
                        ELSE [s EXCEPT !.attempts[a].backup = "failed"]
                   ELSE s
         IN  IF in.open_ok
             THEN IF in.rename_ok
                  THEN EndAttempt(
                         Emit([s1 EXCEPT !.files.exe = IF intact THEN written ELSE @,
                                         !.attempts[a].wrote = intact],
                              "UpdateCompleted", "Success", a, 0), a,
                         IF intact THEN "none" ELSE "install")
                  ELSE EndAttempt(
                         Emit([s1 EXCEPT !.files.newfile = IF intact THEN written ELSE @],
                              "UpdateError", "none", a, 0), a, "install")
             ELSE EndAttempt(Emit(s1, "UpdateCompleted", "Success", a, 0), a, "install")

\* the guard of lines 337-340
CancelledOrNoReply(s) == s.cancel_requested \/ s.current_reply = 0

\* OnDownloadFinished (lines 336-424), run for the finished() of download reply r
OnDownloadFinished(s, r, in) ==
    LET a == s.replies[r].att
    IN  IF CancelledOrNoReply(s)
        THEN EndAttempt(s, a, "none")
        ELSE IF HasError(s, s.current_reply)
        THEN EndAttempt(Emit(s, "UpdateError", "none", a, 0), a, "download")
        ELSE LET data == ReadAll(s, s.current_reply)
             IN  IF platform = "win32"
                 THEN FinishedWin32(s, a, data, in)
                 ELSE FinishedLinux(s, a, data, in)

RECURSIVE EmitInfos(_, _, _, _)
\* emit UpdateCheckCompleted for the infos from the i-th on, storing each
EmitInfos(s, infos, i, r) ==
    IF i > Len(infos) THEN s
    ELSE EmitInfos(Emit([s EXCEPT !.current_update_info = infos[i]],
                        "UpdateCheckCompleted", "none", 0, r), infos, i + 1, r)

\* the lambda connected to finished() in CheckForUpdates (lines 282-291), run
\* for check reply r; data is what current_reply->readAll() returns
CheckFinished(s, r, data) ==
    IF s.current_reply = 0 THEN s
    ELSE LET cr == s.current_reply
             s1 == IF ~HasError(s, cr)
                   THEN EmitInfos(s, ParseUpdateResponse(data, s.replies[r].channel), 1, r)
                   ELSE Emit(s, "UpdateError", "none", 0, r)
             s2 == [s1 EXCEPT !.replies[cr].st = "deleted", !.current_reply = 0]
         IN  IF s.replies[cr].kind = "download" /\ s.replies[cr].st = "inflight"
             THEN [s2 EXCEPT !.attempts[s.replies[cr].att].ph = "lost"]
             ELSE s2

InvalidResponse == [json |-> "invalid", array |-> <<>>]

NoInputs == [backup_ok |-> FALSE, open_ok |-> FALSE, backups_enabled |-> FALSE,
             rename_ok |-> FALSE, extract_ok |-> FALSE, restore_ok |-> FALSE,
             stage |-> "ok", write_ok |-> TRUE, env |-> "intact"]

\* QNetworkReply::abort(): nothing on a reply that finished; otherwise the reply
\* gets OperationCanceledError and emits finished() before abort() returns
Abort(s, r) ==
    IF s.replies[r].st # "inflight" THEN s
    ELSE LET s1 == [s EXCEPT !.replies[r].st = "aborted"]
         IN  IF s.replies[r].kind = "download"
             THEN OnDownloadFinished(s1, r, NoInputs)
             ELSE CheckFinished(s1, r, InvalidResponse)

\* the guard of lines 270 and 295
InProgress(s) == s.update_in_progress

\* CheckForUpdates (lines 269-292)
DoCheckForUpdates(s, channel) ==
    IF InProgress(s) THEN s
    ELSE LET n == NewCheckReply(s)
         IN  [s EXCEPT !.replies[n] = [kind |-> "check", st |-> "inflight",
                                       att |-> 0, channel |-> channel,
                                       cancelled |-> FALSE],
                       !.current_reply = n]

\* the stores of lines 296-297
StoreFlags(s) == [s EXCEPT !.update_in_progress = TRUE, !.cancel_requested = FALSE]

\* the backup and the request of DownloadAndInstallUpdate (lines 299-312)
StartAttempt(s1, in) ==
    LET a == NewAttempt(s1)
        n == NewDownloadReply(s1)
    IN  IF platform = "win32" /\ ~CreateBackupOk(s1, in)
        THEN EndAttempt(
               Emit([s1 EXCEPT !.attempts[a].backup = "failed"],
                    "UpdateCompleted", "PermissionError", a, 0), a, "backup")
        ELSE LET s2 == IF platform = "win32"
                       THEN [CreateBackup(s1, in) EXCEPT !.attempts[a].backup = "ok"]
                       ELSE s1
             IN  [s2 EXCEPT !.replies[n] = [kind |-> "download", st |-> "inflight",
                                            att |-> a, channel |-> <<>>,
                                            cancelled |-> FALSE],
                            !.current_reply = n,
                            !.attempts[a].ph = "downloading"]

\* DownloadAndInstallUpdate (lines 294-313)
DoDownloadAndInstallUpdate(s, in) ==
    IF InProgress(s) THEN s ELSE StartAttempt(StoreFlags(s), in)

\* CancelUpdate (lines 315-320)
DoCancelUpdate(s) ==
    IF ~s.update_in_progress THEN s
    ELSE LET s1 == [s EXCEPT !.cancel_requested = TRUE]
             s2 == IF s1.current_reply # 0 THEN Abort(s1, s1.current_reply) ELSE s1
         IN  [s2 EXCEPT !.update_in_progress = FALSE]

\* bookkeeping of a CancelUpdate call: the phase each attempt was in when it
\* was called, the check replies in flight when it was called, and the end of
\* an attempt whose transfer was destroyed
NoteCancel(s) ==
    [s EXCEPT !.replies =
        [r \in ReplyIds |->
            IF s.replies[r].kind = "check" /\ s.replies[r].st = "inflight"
            THEN [s.replies[r] EXCEPT !.cancelled = TRUE]
            ELSE s.replies[r]],
              !.attempts =
        [a \in AttemptIds |->
            IF s.attempts[a].ph \in {"downloading", "extracting", "lost"}
            THEN [s.attempts[a] EXCEPT
                     !.cancelled = IF @ = "no" THEN s.attempts[a].ph ELSE @,
                     !.ph = IF @ = "lost" /\ s.update_in_progress THEN "ended" ELSE @]
            ELSE s.attempts[a]]]

----------------------------------------------------------------------------
(* The orchestrator: actions *)

Channels == {ChNightly}

\* the responses a feed request may get in Spec
GoodRelease == [tag_name |-> TagA, name |-> TitleA, body |-> <<"b">>,
                published_at |-> <<"d">>, assets |-> <<Asset(FileZip), Asset(FileApp)>>]
SampleResponses ==
    {InvalidResponse, [json |-> "array", array |-> <<GoodRelease>>]}

Stage == {"ok", "mkdir_failed", "copy_failed", "script_failed"}

\* what a read through the dangling appimage_env pointer yields
EnvReads == {"intact", "empty", "garbage"}

\* a caller calls CheckForUpdates(channel)
CheckForUpdates ==
    \E channel \in Channels :
        /\ update_in_progress \/ NumChecks + NumAttempts < MaxRequests
        /\ Commit(DoCheckForUpdates(Cur, channel))
        /\ UNCHANGED <<appimage_env, parseVars, buildVars, raceVars, toolVars>>

\* a caller calls DownloadAndInstallUpdate(url)
DownloadAndInstallUpdate ==
    \E ok \in BOOLEAN :
        /\ update_in_progress \/ NumChecks + NumAttempts < MaxRequests
        /\ Commit(DoDownloadAndInstallUpdate(Cur, [NoInputs EXCEPT !.backup_ok = ok]))
        /\ UNCHANGED <<appimage_env, parseVars, buildVars, raceVars, toolVars>>

\* a caller calls CancelUpdate()
CancelUpdate ==
    /\ Commit(DoCancelUpdate(NoteCancel(Cur)))
    /\ UNCHANGED <<appimage_env, parseVars, buildVars, raceVars, toolVars>>

\* the transfer of check reply r ends, with or without a network error, and
\* its finished() runs the lambda of CheckForUpdates
CheckReplyDone(r, ok, response) ==
    /\ replies[r].kind = "check" /\ replies[r].st = "inflight"
    /\ current_reply = r \/ response = InvalidResponse
       \/ (current_reply # 0 /\ replies[current_reply].kind = "check"
           /\ replies[current_reply].st = "inflight")
    /\ Commit(CheckFinished(
          [Cur EXCEPT !.replies[r].st = IF ok THEN "ok" ELSE "err"], r, response))
    /\ UNCHANGED <<appimage_env, parseVars, buildVars, raceVars, toolVars>>

CheckReplyFinished ==
    \E r \in ReplyIds, ok \in BOOLEAN, response \in SampleResponses :
        CheckReplyDone(r, ok, response)

\* the transfer of download reply r ends, with or without a network error, and
\* its finished() runs OnDownloadFinished
DownloadReplyFinished ==
    \E r \in ReplyIds, ok \in BOOLEAN, open_ok \in BOOLEAN,
       backups_enabled \in BOOLEAN, backup_ok \in BOOLEAN, rename_ok \in BOOLEAN,
       write_ok \in BOOLEAN, env \in EnvReads :
        /\ replies[r].kind = "download" /\ replies[r].st = "inflight"
        /\ Commit(OnDownloadFinished(
              [Cur EXCEPT !.replies[r].st = IF ok THEN "ok" ELSE "err"], r,
              [NoInputs EXCEPT !.open_ok = open_ok, !.backups_enabled = backups_enabled,
                               !.backup_ok = backup_ok, !.rename_ok = rename_ok,
                               !.write_ok = write_ok, !.env = env]))
        /\ UNCHANGED <<appimage_env, parseVars, buildVars, raceVars, toolVars>>

\* the 100 ms timer of attempt a fires and runs the extract/install lambda
ExtractTimerFired ==
    \E a \in timers, extract_ok \in BOOLEAN, restore_ok \in BOOLEAN, stage \in Stage :
        /\ Commit(ExtractAndInstall(Cur, a,
              [NoInputs EXCEPT !.extract_ok = extract_ok, !.restore_ok = restore_ok,
                               !.stage = stage]))
        /\ UNCHANGED <<appimage_env, parseVars, buildVars, raceVars, toolVars>>

----------------------------------------------------------------------------
(* InstallUpdate on directories of files *)

\* relative paths of regular files in an archive, and the helper script
RelPaths == {"citron.exe", "lib/x.dll"}
ScriptPath == "apply_update.bat"

\* a directory is a set of files [p |-> relative path, c |-> content]
FilesOf(paths, c) == {[p |-> q, c |-> c] : q \in paths}
\* copy_file(..., overwrite_existing) of the files fs into directory dir
CopyInto(dir, fs) == {f \in dir : \A g \in fs : g.p # f.p} \cup fs

\* InstallUpdate (lines 541-561) on the extraction directory u_p and the
\* staging directory as the call finds it: the value returned and the staging
\* directory afterwards. in.mkdir_ok is whether create_directories(staging)
\* succeeds, in.left is what remove_all (its error code is not
\* examined) leaves in place, in.fails the files whose copy_file throws,
\* in.copied the files copied before the first throw, in.script_ok whether
\* CreateUpdateHelperScript could write the script.
InstallUpdateFiles(u_p, staging, in) ==
    LET cleaned == {f \in staging : f.p \in in.left}
        sources == FilesOf(u_p.files, "new")
    IN  IF ~in.mkdir_ok THEN [ret |-> FALSE, staging |-> staging]
        ELSE IF in.fails \cap u_p.files # {}
        THEN [ret |-> FALSE,
              staging |-> CopyInto(cleaned, {f \in sources : f.p \in in.copied})]
        ELSE IF ~in.script_ok
        THEN [ret |-> FALSE, staging |-> CopyInto(cleaned, sources)]
        ELSE [ret |-> TRUE,
              staging |-> CopyInto(CopyInto(cleaned, sources),
                                   FilesOf({ScriptPath}, "script"))]

NoInst == [pc |-> "off", u_p |-> [files |-> {}, dirs |-> {}], before |-> {},
           staging |-> {}, ret |-> FALSE, fails |-> {}]

\* the extraction directories and the staging directories a call may find
ExtractedDirs == [files : SUBSET RelPaths, dirs : SUBSET {"lib", "empty"}]
StagingDirs ==
    {FilesOf(ps, "old") : ps \in SUBSET (RelPaths \cup {"old.dll", ScriptPath})}

\* one call of InstallUpdate(u_p)
CallInstallUpdate ==
    \E left \in SUBSET {f.p : f \in inst.staging}, fails \in SUBSET RelPaths,
       copied \in SUBSET RelPaths, script_ok \in BOOLEAN, mkdir_ok \in BOOLEAN :
        /\ inst.pc = "ready"
        /\ copied \cap fails = {}
        /\ LET r == InstallUpdateFiles(inst.u_p, inst.staging,
                        [left |-> left, fails |-> fails, copied |-> copied,
                         script_ok |-> script_ok, mkdir_ok |-> mkdir_ok])
           IN  inst' = [inst EXCEPT !.pc = "done", !.staging = r.staging,
                                    !.ret = r.ret, !.fails = fails \cap inst.u_p.files]
        /\ UNCHANGED <<helper, bk, prog>>
        /\ UNCHANGED <<svcVars, current_update_info, parseVars, buildVars, raceVars>>

----------------------------------------------------------------------------
(* The helper script apply_update.bat written by CreateUpdateHelperScript,
   as the sequence of its commands *)

WaitLimit == 60      \* if !wait_count! gtr 60
CopyTries == 3       \* if !copy_retries! lss 3
CleanupTries == 5    \* if !cleanup_retries! lss 5
RobocopyFail == 8    \* if !robocopy_exit! geq 8

\* exit codes of robocopy on both sides of the limit
RobocopyExits == {0, 1, RobocopyFail - 1, RobocopyFail, 2 * RobocopyFail}

\* a wait loop that gives up one pass later
WaitExceededLate(count) == count > WaitLimit + 1
\* if !wait_count! gtr 60
WaitExceeded(count) == count > WaitLimit

\* a check that takes every exit code for success
CopyNeverFailed(code) == FALSE
\* if !robocopy_exit! geq 8
CopyFailed(code) == code >= RobocopyFail

\* a cleanup loop that tries once more
CleanupRetriedOnceMore(retries) == retries < CleanupTries + 1
\* if !cleanup_retries! lss 5
CleanupRetried(retries) == retries < CleanupTries

\* the script before its first command: the counters of the script, the step
\* it is at, what it did so far (steps, in order of first execution; the
\* numbers of polls, 1-second waits, robocopy runs, 2-second waits before a
\* retry of the copy, rd runs and 1-second waits before a retry of rd), and
\* its result
NoHelper == [pc |-> "off", wait_count |-> 0, copy_retries |-> 0, cleanup_retries |-> 0,
             steps |-> <<>>, polls |-> 0, waits |-> 0, copies |-> 0, copy_waits |-> 0,
             rds |-> 0, cleanup_waits |-> 0,
             robocopy_exit |-> 0, warned |-> FALSE, exe_seen |-> FALSE,
             relaunched |-> FALSE, staging_exists |-> TRUE, self_exists |-> TRUE,
             exit |-> -1]

\* note that the script reached a step
Step(h, name) ==
    IF \E i \in 1..Len(h.steps) : h.steps[i] = name THEN h
    ELSE [h EXCEPT !.steps = Append(@, name)]

\* :wait_loop (lines 607-618), one pass; running is what tasklist|find reports
WaitLoop(h, running) ==
    LET h1 == [Step(h, "wait") EXCEPT !.polls = @ + 1]
    IN  IF ~running THEN [h1 EXCEPT !.pc = "wait_done"]
        ELSE LET h2 == [h1 EXCEPT !.wait_count = @ + 1]
             IN  IF WaitExceeded(h2.wait_count)
                 THEN [h2 EXCEPT !.warned = TRUE, !.pc = "wait_done"]
                 ELSE [h2 EXCEPT !.waits = @ + 1]

\* :wait_done, attrib -R, set copy_retries=0 (lines 619-628)
Prepare(h) == [Step(h, "attrib") EXCEPT !.copy_retries = 0, !.pc = "copy_loop"]

\* :copy_loop (lines 629-647), one pass; code is the exit code of robocopy
CopyLoop(h, code) ==
    LET h1 == [Step(h, "copy") EXCEPT !.copies = @ + 1, !.robocopy_exit = code]
    IN  IF CopyFailed(code)
        THEN LET h2 == [h1 EXCEPT !.copy_retries = @ + 1]
             IN  IF h2.copy_retries < CopyTries THEN [h2 EXCEPT !.copy_waits = @ + 1]
                 ELSE [h2 EXCEPT !.exit = 1, !.pc = "exited"]
        ELSE [h1 EXCEPT !.pc = "verify"]

\* a verification that relaunches whatever it finds
VerifyIgnored(h, exists) ==
    [Step(h, "verify") EXCEPT !.exe_seen = exists, !.pc = "relaunch"]
\* the post-install verification (lines 649-654)
Verify(h, exists) ==
    LET h1 == [Step(h, "verify") EXCEPT !.exe_seen = exists]
    IN  IF ~exists THEN [h1 EXCEPT !.exit = 1, !.pc = "exited"]
        ELSE [h1 EXCEPT !.pc = "relaunch"]

\* start citron.exe, set cleanup_retries=0 (lines 656-662)
Relaunch(h) ==
    [Step(h, "relaunch") EXCEPT !.relaunched = TRUE, !.cleanup_retries = 0,
                                !.pc = "cleanup_loop"]

\* :cleanup_loop (lines 663-671), one pass; removed is whether rd /s /q
\* removed the staging directory, the script in it included
CleanupLoop(h, removed) ==
    LET h1 == [Step(h, "cleanup") EXCEPT !.rds = @ + 1]
    IN  IF removed
        THEN [h1 EXCEPT !.staging_exists = FALSE, !.self_exists = FALSE,
                        !.pc = "self_delete"]
        ELSE LET h2 == [h1 EXCEPT !.cleanup_retries = @ + 1]
             IN  IF CleanupRetried(h2.cleanup_retries) THEN [h2 EXCEPT !.cleanup_waits = @ + 1]
                 ELSE [h2 EXCEPT !.pc = "self_delete"]

\* del "%~f0", exit /b 0 (lines 673-675)
SelfDelete(h) ==
    [Step(h, "self_delete") EXCEPT !.self_exists = FALSE, !.exit = 0, !.pc = "exited"]

\* the interpreter executes the command block at label pc
HelperStep(pc, next) ==
    /\ helper.pc = pc
    /\ helper' = next
    /\ UNCHANGED <<inst, bk, prog>>
    /\ UNCHANGED <<svcVars, current_update_info, parseVars, buildVars, raceVars>>

----------------------------------------------------------------------------
(* CreateBackup and RestoreBackup on the backup slot *)

MaxOps == 5          \* calls made in a run of SpecBackup

\* the value RestoreBackup returns (lines 571-580)
RestoreBackupOk(s, in) == s.files.backup.k # "missing" /\ in.restore_ok

\* what the calls so far did: the last call, what it returned, the executable
\* and the slot before it, the executable as it was at the last snapshot that
\* returned true, and as it was at the snapshots before that one
NoBk == [op |-> "none", ret |-> FALSE, exe_before |-> Missing,
         slot_before |-> Missing, snap |-> Missing, older |-> {}, n |-> 0]

\* a call of CreateBackup()
CallCreateBackup ==
    \E ok \in BOOLEAN :
        LET in == [NoInputs EXCEPT !.backup_ok = ok]
        IN  /\ bk.n < MaxOps
            /\ Commit(CreateBackup(Cur, in))
            /\ bk' = [op |-> "snapshot", ret |-> CreateBackupOk(Cur, in),
                      exe_before |-> files.exe, slot_before |-> files.backup,
                      snap |-> IF CreateBackupOk(Cur, in) THEN files.exe ELSE bk.snap,
                      older |-> IF CreateBackupOk(Cur, in) /\ bk.snap # Missing
                                THEN bk.older \cup {bk.snap} ELSE bk.older,
                      n |-> bk.n + 1]
            /\ UNCHANGED <<appimage_env, parseVars, buildVars, raceVars, inst, helper, prog>>

\* a call of RestoreBackup()
CallRestoreBackup ==
    \E ok \in BOOLEAN :
        LET in == [NoInputs EXCEPT !.restore_ok = ok]
        IN  /\ bk.n < MaxOps
            /\ Commit(RestoreBackup(Cur, 1, in))
            /\ bk' = [bk EXCEPT !.op = "restore", !.ret = RestoreBackupOk(Cur, in),
                                !.exe_before = files.exe, !.slot_before = files.backup,
                                !.n = @ + 1]
            /\ UNCHANGED <<appimage_env, parseVars, buildVars, raceVars, inst, helper, prog>>

\* the installed executable is replaced by another build
ReplaceExecutable ==
    \E a \in AttemptIds :
        /\ bk.n < MaxOps
        /\ files.exe # Payload(a)
        /\ files' = [files EXCEPT !.exe = Payload(a)]
        /\ bk' = [bk EXCEPT !.op = "replace", !.ret = TRUE, !.exe_before = files.exe,
                            !.slot_before = files.backup, !.n = @ + 1]
        /\ UNCHANGED <<update_in_progress, cancel_requested, current_reply, replies,
                       timers, signals, attempts, current_update_info>>
        /\ UNCHANGED <<appimage_env, parseVars, buildVars, raceVars, inst, helper, prog>>

----------------------------------------------------------------------------
(* OnDownloadProgress on 64-bit byte counts *)

MaxChunks == 2       \* chunks received in a run of SpecProgress

\* The magnitude of a qint64 is written as four limbs in base 10^6, least
\* significant first, so that the arithmetic keeps the width of the type;
\* a qint64 is [neg |-> its sign, mag |-> its magnitude].
Limb == 1000000
Zero == <<0, 0, 0, 0>>
\* std::numeric_limits<qint64>::max() = 9223372036854775807
Int64Max == <<775807, 36854, 223372, 9>>

\* carry propagation: the limbs of the number that x denotes
Norm(x) ==
    LET y2 == x[2] + (x[1] \div Limb)
        y3 == x[3] + (y2 \div Limb)
        y4 == x[4] + (y3 \div Limb)
    IN  <<x[1] % Limb, y2 % Limb, y3 % Limb, y4>>

\* x * k as a mathematical integer, for a small k
Scale(x, k) == Norm([i \in 1..4 |-> x[i] * k])

\* x <= y
Leq(x, y) ==
    \/ x = y
    \/ \E i \in 1..4 : x[i] < y[i] /\ \A j \in (i + 1)..4 : x[j] = y[j]

\* n / d of C++ for 0 <= n <= 100 * d, 0 < d
Quotient(n, d) ==
    CHOOSE q \in 0..100 : Leq(Scale(d, q), n) /\ ~Leq(Scale(d, q + 1), n)

NoEmit == [pct |-> -1, r |-> Zero, t |-> Zero, emitted |-> FALSE]

\* OnDownloadProgress(r, t) (lines 693-695) for r >= 0: the
\* UpdateDownloadProgress signal it emits, if any. When r * 100 does not fit
\* a qint64 the multiplication overflows a signed type and ub is what the
\* build makes of it.
OnDownloadProgress(r, t, ub) ==
    IF t.neg \/ t.mag = Zero THEN NoEmit
    ELSE [pct |-> IF Leq(Scale(r.mag, 100), Int64Max)
                  THEN Quotient(Scale(r.mag, 100), t.mag)
                  ELSE ub,
          r |-> r.mag, t |-> t.mag, emitted |-> TRUE]

\* sizes a transfer may announce (bytesTotal is -1 when the size is unknown)
\* and byte counts it may report
ByteCounts ==
    {[neg |-> FALSE, mag |-> m] :
        m \in {Zero, <<1, 0, 0, 0>>, <<2, 0, 0, 0>>, <<3, 0, 0, 0>>, <<999, 0, 0, 0>>,
               <<1000, 0, 0, 0>>, <<0, 250, 0, 0>>, <<547758, 720368, 92233, 0>>,
               <<547759, 720368, 92233, 0>>, <<0, 0, 0, 5>>, Int64Max}}
TotalSizes == ByteCounts \cup {[neg |-> TRUE, mag |-> <<1, 0, 0, 0>>]}

\* outcomes of the overflowing multiplication followed by the division
Percentages == -100..100

NoProg == [pc |-> "off", t |-> [neg |-> FALSE, mag |-> Zero],
           r |-> [neg |-> FALSE, mag |-> Zero], chunks |-> 0, last |-> NoEmit]

\* QNetworkReply::downloadProgress(r, t) delivered to OnDownloadProgress
\* (connect, line 311): the count never decreases and never exceeds a known
\* total
DownloadProgress ==
    \E r \in ByteCounts, ub \in Percentages :
        /\ prog.pc = "run"
        /\ prog.chunks < MaxChunks
        /\ Leq(prog.r.mag, r.mag)
        /\ (~prog.t.neg /\ prog.t.mag # Zero) => Leq(r.mag, prog.t.mag)
        /\ Leq(Scale(r.mag, 100), Int64Max) => ub = 0
        /\ prog' = [prog EXCEPT !.r = r, !.chunks = @ + 1,
                                !.last = OnDownloadProgress(r, prog.t, ub)]
        /\ UNCHANGED <<inst, helper, bk>>
        /\ UNCHANGED <<svcVars, current_update_info, parseVars, buildVars, raceVars>>

ToolsIdle == inst = NoInst /\ helper = NoHelper /\ bk = NoBk /\ prog = NoProg

----------------------------------------------------------------------------
(* Specifications *)

InitParse ==
    /\ \E plat \in {"win32", "linux"}, id \in Identities : InitBuild(plat, id)
    /\ p_response \in Responses
    /\ p_channel \in {ChStable, ChNightly}
    /\ p_pc = "ready"
    /\ p_emitted = <<>>
    /\ current_update_info = NoInfo
    /\ InitService
    /\ t_pc = NoCallers
    /\ ToolsIdle

\* one call of ParseUpdateResponse(p_response, p_channel)
CallParseUpdateResponse ==
    /\ p_pc = "ready"
    /\ p_pc' = "done"
    /\ p_emitted' = ParseUpdateResponse(p_response, p_channel)
    /\ current_update_info' =
          IF p_emitted' = <<>> THEN current_update_info
          ELSE p_emitted'[Len(p_emitted')]
    /\ UNCHANGED <<p_response, p_channel>>
    /\ UNCHANGED buildVars
    /\ UNCHANGED svcVars
    /\ UNCHANGED <<raceVars, toolVars>>

NextParse == CallParseUpdateResponse

vars == <<platform, g_citron_variant, g_citron_version, g_citron_hash,
          current_update_info, p_response, p_channel, p_pc, p_emitted,
          appimage_env, update_in_progress, cancel_requested, current_reply,
          replies, timers, signals, attempts, files, t_pc, inst, helper, bk, prog>>

SpecParse == InitParse /\ [][NextParse]_vars

\* one call of ParseUpdateResponse on a feed of one record, for every build
InitSelect ==
    /\ \E plat \in {"win32", "linux"}, id \in SelectIdentities : InitBuild(plat, id)
    /\ p_response \in SelectResponses
    /\ p_channel = ChStable
    /\ p_pc = "ready"
    /\ p_emitted = <<>>
    /\ current_update_info = NoInfo
    /\ InitService
    /\ t_pc = NoCallers
    /\ ToolsIdle

SpecSelect == InitSelect /\ [][NextParse]_vars

\* one call of ParseUpdateResponse on a Nightly feed of one record, for every title
InitHash ==
    /\ \E plat \in {"win32", "linux"}, id \in Identities : InitBuild(plat, id)
    /\ p_response \in HashResponses
    /\ p_channel = ChNightly
    /\ p_pc = "ready"
    /\ p_emitted = <<>>
    /\ current_update_info = NoInfo
    /\ InitService
    /\ t_pc = NoCallers
    /\ ToolsIdle

SpecHash == InitHash /\ [][NextParse]_vars

\* DownloadAndInstallUpdate called from several execution contexts at once,
\* statement by statement: caller t is at the guard ("call"), past it
\* ("passed"), past the stores ("stored"), and ends "rejected", "started" or
\* "failed"

\* line 295: update_in_progress.load()
LoadGuard(t) ==
    /\ t_pc[t] = "call"
    /\ t_pc' = [t_pc EXCEPT ![t] = IF InProgress(Cur) THEN "rejected" ELSE "passed"]
    /\ UNCHANGED <<svcVars, current_update_info, parseVars, buildVars, toolVars>>

\* lines 296-297: update_in_progress.store(true); cancel_requested.store(false)
StoreGuard(t) ==
    /\ t_pc[t] = "passed"
    /\ Commit(StoreFlags(Cur))
    /\ t_pc' = [t_pc EXCEPT ![t] = "stored"]
    /\ UNCHANGED <<appimage_env, parseVars, buildVars, toolVars>>

\* lines 299-312: the backup, then the request
BackupAndGet(t) ==
    \E ok \in BOOLEAN :
        /\ t_pc[t] = "stored"
        /\ Commit(StartAttempt(Cur, [NoInputs EXCEPT !.backup_ok = ok]))
        /\ t_pc' = [t_pc EXCEPT ![t] =
                       IF attempts'[NewAttempt(Cur)].ph = "downloading"
                       THEN "started" ELSE "failed"]
        /\ UNCHANGED <<appimage_env, parseVars, buildVars, toolVars>>

InitRace ==
    /\ \E plat \in {"win32", "linux"} : InitBuild(plat, CHOOSE id \in Identities : TRUE)
    /\ p_response = InvalidResponse
    /\ p_channel = ChNightly
    /\ p_pc = "off"
    /\ p_emitted = <<>>
    /\ current_update_info = NoInfo
    /\ InitService
    /\ t_pc = [t \in Threads |-> "call"]
    /\ ToolsIdle

NextRace ==
    \E t \in Threads :
        \/ LoadGuard(t)
        \/ StoreGuard(t)
        \/ BackupAndGet(t)

SpecRace == InitRace /\ [][NextRace]_vars

\* the orchestrator, on a build of either platform
Init ==
    /\ \E plat \in {"win32", "linux"} : InitBuild(plat, CHOOSE id \in Identities : TRUE)
    /\ p_response = InvalidResponse
    /\ p_channel = ChNightly
    /\ p_pc = "off"
    /\ p_emitted = <<>>
    /\ current_update_info = NoInfo
    /\ InitService
    /\ t_pc = NoCallers
    /\ ToolsIdle

Next ==
    \/ CheckForUpdates
    \/ DownloadAndInstallUpdate
    \/ CancelUpdate
    \/ CheckReplyFinished
    \/ DownloadReplyFinished
    \/ ExtractTimerFired

Spec == Init /\ [][Next]_vars

\* the orchestrator with an event loop that delivers every pending completion:
\* a transfer in flight eventually finishes or fails, a pending timer fires
FairSpec ==
    /\ Spec
    /\ WF_vars(CheckReplyFinished)
    /\ WF_vars(DownloadReplyFinished)
    /\ WF_vars(ExtractTimerFired)

\* the rest of the program at rest, on a win32 build
RestInit ==
    /\ InitBuild("win32", CHOOSE id \in Identities : TRUE)
    /\ p_response = InvalidResponse
    /\ p_channel = ChNightly
    /\ p_pc = "off"
    /\ p_emitted = <<>>
    /\ current_update_info = NoInfo
    /\ InitService
    /\ t_pc = NoCallers

\* one call of InstallUpdate, on every extraction directory and every staging
\* directory an earlier attempt may have left
InitInstall ==
    /\ RestInit
    /\ \E u_p \in ExtractedDirs, st \in StagingDirs :
          inst = [NoInst EXCEPT !.pc = "ready", !.u_p = u_p, !.before = st, !.staging = st]
    /\ helper = NoHelper
    /\ bk = NoBk
    /\ prog = NoProg

SpecInstall == InitInstall /\ [][CallInstallUpdate]_vars

\* one run of the helper script
InitHelper ==
    /\ RestInit
    /\ inst = NoInst
    /\ helper = [NoHelper EXCEPT !.pc = "wait_loop"]
    /\ bk = NoBk
    /\ prog = NoProg

NextHelper ==
    \/ \E running \in BOOLEAN : HelperStep("wait_loop", WaitLoop(helper, running))
    \/ HelperStep("wait_done", Prepare(helper))
    \/ \E code \in RobocopyExits : HelperStep("copy_loop", CopyLoop(helper, code))
    \/ \E exists \in BOOLEAN : HelperStep("verify", Verify(helper, exists))
    \/ HelperStep("relaunch", Relaunch(helper))
    \/ \E removed \in BOOLEAN : HelperStep("cleanup_loop", CleanupLoop(helper, removed))
    \/ HelperStep("self_delete", SelfDelete(helper))

SpecHelper == InitHelper /\ [][NextHelper]_vars

\* the helper script run by an interpreter that executes the next command
FairHelper == SpecHelper /\ WF_vars(NextHelper)

\* calls of CreateBackup and RestoreBackup, and replacements of the executable
InitBackup ==
    /\ RestInit
    /\ inst = NoInst
    /\ helper = NoHelper
    /\ bk = NoBk
    /\ prog = NoProg

NextBackup ==
    \/ CallCreateBackup
    \/ CallRestoreBackup
    \/ ReplaceExecutable

SpecBackup == InitBackup /\ [][NextBackup]_vars

\* one transfer of every announced size, and the chunks it reports
InitProgress ==
    /\ RestInit
    /\ inst = NoInst
    /\ helper = NoHelper
    /\ bk = NoBk
    /\ \E t \in TotalSizes : prog = [NoProg EXCEPT !.pc = "run", !.t = t]

SpecProgress == InitProgress /\ [][DownloadProgress]_vars

----------------------------------------------------------------------------
(* Properties of the orchestrator (Spec) *)

HasSignal(a, sig, res) ==
    \E i \in 1..Len(signals.att[a]) : signals.att[a][i] = [sig |-> sig, res |-> res]
HasSuccess(a) == HasSignal(a, "UpdateCompleted", "Success")
Extracting == \E a \in AttemptIds : attempts[a].ph = "extracting"
Downloading == \E a \in AttemptIds : attempts[a].ph = "downloading"

\* C1: at most one update attempt (download, extract, install) is in flight at
\* any time.
C1_SingleFlight == Cardinality({a \in AttemptIds : InFlight(a)}) <= 1

\* C2: a DownloadAndInstallUpdate call made while the state is not Idle issues
\* no request and leaves the in-progress flag, the cancel flag and the active
\* reply unchanged.
C2_DownloadIsNoOpUnlessIdle ==
    [][(DownloadAndInstallUpdate /\ OrchestratorState # "Idle")
          => UNCHANGED <<update_in_progress, cancel_requested, current_reply, replies>>]_vars

\* C3: a CheckForUpdates call made while the state is not Idle (Checking
\* included) issues no feed request and does not replace the active reply.
C3_CheckRejectedUnlessIdle ==
    [][(CheckForUpdates /\ OrchestratorState # "Idle")
          => UNCHANGED <<current_reply, replies>>]_vars

\* C4: after a CancelUpdate call made while an attempt is Downloading the
\* in-progress flag is false, and that attempt never emits
\* UpdateCompleted(Success), the delayed extract/install step included.
C4_CancelWhileDownloading ==
    /\ [](\A a \in AttemptIds : attempts[a].cancelled = "downloading" => ~HasSuccess(a))
    /\ [][(CancelUpdate /\ Downloading) => ~update_in_progress']_vars

\* C5: a check that was in flight when CancelUpdate was called is aborted by
\* the call and delivers no UpdateCheckCompleted afterwards.
C5_CancelWhileChecking ==
    \A r \in ReplyIds :
        replies[r].kind = "check" /\ replies[r].cancelled
            => /\ replies[r].st # "inflight"
               /\ \A i \in 1..Len(signals.chk[r]) :
                     signals.chk[r][i].sig # "UpdateCheckCompleted"

\* C6: a CancelUpdate call made after the download of an attempt finished,
\* while its extraction/installation is under way, leaves the in-progress flag
\* set and the attempt running.
C6_CancelIgnoredWhileInstalling ==
    [][(CancelUpdate /\ Extracting /\ update_in_progress)
          => update_in_progress' /\ timers' = timers]_vars

\* C7: an attempt that failed at Downloading, Extracting or Installing reports
\* a result that is not Success; a failure at Extracting or Installing of the
\* staged strategy has the backup restore triggered.
C7_FailureReportsNonSuccess ==
    \A a \in AttemptIds :
        attempts[a].ph = "ended" /\ attempts[a].failed \in {"download", "extract", "install"}
            => /\ ~HasSuccess(a)
               /\ signals.att[a] # <<>>
               /\ (platform = "win32" /\ attempts[a].failed # "download")
                     => attempts[a].restore

\* C8: an attempt whose backup step was attempted and failed never replaces a
\* file of the installation, on either install strategy.
C8_NoInstallWithoutBackup ==
    \A a \in AttemptIds : attempts[a].backup = "failed" => ~attempts[a].wrote

\* C9: once an install attempt has ended in failure and no other attempt is
\* running, the staging directory does not exist.
C9_StagingPurgedAfterFailure ==
    (/\ \E a \in AttemptIds :
           attempts[a].ph = "ended" /\ attempts[a].failed \in {"extract", "install"}
     /\ \A a \in AttemptIds : ~InFlight(a) /\ ~HasSuccess(a))
        => ~files.staging.exists

\* the signals of check reply r after the step that were not there before it
NewCheckSignals(r) ==
    SubSeq(signals'.chk[r], Len(signals.chk[r]) + 1, Len(signals'.chk[r]))

\* C12: when the feed request of the active check ends without a network error
\* and its payload is not a JSON array, the check reports an error to the
\* caller, emits no UpdateCheckCompleted and leaves the stored release info
\* unchanged.
C12_MalformedFeedReported ==
    [][\A r \in ReplyIds :
          (current_reply = r /\ CheckReplyDone(r, TRUE, InvalidResponse))
             => /\ \E i \in 1..Len(NewCheckSignals(r)) :
                      NewCheckSignals(r)[i].sig = "UpdateError"
                /\ \A i \in 1..Len(NewCheckSignals(r)) :
                      NewCheckSignals(r)[i].sig # "UpdateCheckCompleted"
                /\ current_update_info' = current_update_info]_vars

----------------------------------------------------------------------------
(* Properties of ParseUpdateResponse (SpecParse) *)

ParseDone == p_pc = "done" /\ p_response.json = "array"
Feed == p_response.array

\* the asset selection of record i is non-empty
Selectable(i) == DownloadOptions(Feed[i].assets) # <<>>
\* a version string can be derived from record i
Versioned(i) == LatestVersion(Feed[i], p_channel) # <<>>

FirstOf(S) == CHOOSE i \in S : \A j \in S : i <= j

\* C11: for a well-formed feed in which no record yields a compatible asset,
\* the call ends with a notification to the caller ("no update available"),
\* never silently.
C11_NoCompatibleAssetReported ==
    (ParseDone /\ \A i \in 1..Len(Feed) : ~Selectable(i)) => p_emitted # <<>>

\* C10 as stated: for a well-formed feed the reported release is the first
\* record in feed order whose asset selection is non-empty, and only that one
\* record is reported.
C10_FirstSelectableReported ==
    ParseDone =>
        LET S == {i \in 1..Len(Feed) : Selectable(i)}
        IN  /\ S # {} => p_emitted # <<>>
            /\ p_emitted # <<>> =>
                  /\ Len(p_emitted) = 1
                  /\ S # {}
                  /\ p_emitted[1].index = FirstOf(S)

\* C10 amended: for a well-formed feed the reported release is the first
\* record in feed order that yields a version string and whose asset selection
\* is non-empty; no later record is reported, the scan stops at that record,
\* and the stored release info is that record's.
C10_FirstVersionedSelectableReported ==
    ParseDone =>
        LET S == {i \in 1..Len(Feed) : Versioned(i) /\ Selectable(i)}
        IN  /\ S # {} => p_emitted # <<>>
            /\ p_emitted # <<>> =>
                  /\ Len(p_emitted) = 1
                  /\ S # {}
                  /\ p_emitted[1].index = FirstOf(S)
                  /\ p_emitted[1].download_options = DownloadOptions(Feed[FirstOf(S)].assets)
                  /\ current_update_info = p_emitted[1]

\* C10 witness: a feed whose first two records both qualify, and the first is reported
C10_Witness ==
    /\ ParseDone
    /\ Len(Feed) >= 2
    /\ Versioned(1) /\ Selectable(1) /\ Versioned(2) /\ Selectable(2)
    /\ Len(p_emitted) = 1 /\ p_emitted[1].index = 1

----------------------------------------------------------------------------
(* Properties of the asset selection (SpecSelect) *)

\* the names of the assets of the feed's record
AssetNames == [i \in 1..Len(Feed[1].assets) |-> Feed[1].assets[i].name]
\* the names of the download options that were reported
ReportedNames ==
    [i \in 1..Len(p_emitted[1].download_options) |-> p_emitted[1].download_options[i].name]
Reported == ParseDone /\ p_emitted # <<>>

\* the platform filter as the claim words it: the expected package extension,
\* and no PGO build where .zip is the extension
PassesPlatform(name) ==
    IF platform = "linux"
    THEN EndsWithCI(name, S_AppImage)
    ELSE EndsWithCI(name, S_zip) /\ ~ContainsCI(name, S_PGO)

\* C13: every download option of a reported release passed the platform
\* filter, whether or not it matched the variant, and is an asset of the
\* record; so the options are non-empty only if an asset passed the filter.
C13_OptionsPassPlatformFilter ==
    Reported =>
        /\ \A i \in 1..Len(ReportedNames) :
              /\ PassesPlatform(ReportedNames[i])
              /\ \E j \in 1..Len(AssetNames) : AssetNames[j] = ReportedNames[i]
        /\ (\E j \in 1..Len(AssetNames) : PassesPlatform(AssetNames[j]))

\* C13 witness: a record with an asset that fails the platform filter and one
\* that passes it; only the latter is reported
C13_Witness ==
    /\ Reported
    /\ \E j \in 1..Len(AssetNames) : ~PassesPlatform(AssetNames[j])
    /\ Len(ReportedNames) = 1

\* C14: if a platform-valid asset matches the running variant, the reported
\* options are exactly the variant-matched assets in asset order; otherwise
\* they are the whole platform-valid set, and nothing is reported when that is
\* empty. Running variant v3 with c-v3.zip and c.zip on the .zip platform
\* gives c-v3.zip only.
C14_VariantMatchedHasPriority ==
    p_pc = "done" =>
        LET assets  == Feed[1].assets
            matched == SelectSeq(assets, IsVariantMatched)
            valid   == SelectSeq(assets, IsOsValid)
            chosen  == IF matched # <<>> THEN matched ELSE valid
        IN  /\ chosen = <<>> <=> p_emitted = <<>>
            /\ p_emitted # <<>> =>
                  ReportedNames = [i \in 1..Len(chosen) |-> chosen[i].name]
            /\ (/\ platform = "win32" /\ g_citron_variant = VariantV3
                /\ AssetNames = <<FileZipV3, FileZip>>)
                   => p_emitted # <<>> /\ ReportedNames = <<FileZipV3>>

\* C14 witness: the example of the claim
C14_Witness ==
    /\ Reported
    /\ platform = "win32" /\ g_citron_variant = VariantV3
    /\ AssetNames = <<FileZipV3, FileZip>>
    /\ ReportedNames = <<FileZipV3>>

\* the tags a file name or a variant can carry, and those of the running variant
Tags == {S_v3, S_aarch64}
RunningTags == {t \in Tags : Find(g_citron_variant, t)}

\* C15: a platform-valid asset is variant-matched only if its name contains
\* the running variant's tag and no competing tag that the running variant
\* lacks; for the generic variant exactly the assets without a competing tag
\* are variant-matched.
C15_VariantMatchRule ==
    p_pc = "done" => \A j \in 1..Len(Feed[1].assets) :
        LET asset == Feed[1].assets[j]
            name  == asset.name
        IN  IsOsValid(asset) =>
              /\ IsVariantMatched(asset) =>
                    /\ RunningTags = {} \/ \E t \in RunningTags : ContainsCI(name, t)
                    /\ \A t \in Tags \ RunningTags : ~ContainsCI(name, t)
              /\ RunningTags = {} =>
                    (IsVariantMatched(asset) <=> \A t \in Tags : ~ContainsCI(name, t))

----------------------------------------------------------------------------
(* Properties of the version strings (SpecParse, SpecHash) *)

\* C16: is_newer_version of a reported release is true exactly when the
\* fetched version string (tag_name on Stable, the hash of the title on
\* Nightly) differs from the running build's identifier for the channel (build
\* hash on Nightly, release version on Stable), whatever the order of the two.
C16_NewerIsStringInequality ==
    Reported =>
        LET info    == p_emitted[1]
            rec     == Feed[info.index]
            fetched == IF p_channel = ChNightly THEN ExtractCommitHash(rec.name)
                       ELSE rec.tag_name
            running == IF p_channel = ChNightly THEN g_citron_hash ELSE g_citron_version
        IN  /\ info.version = fetched
            /\ info.is_newer_version <=> (fetched # running)
            /\ (fetched = HashA /\ running = HashA) => ~info.is_newer_version

\* C16 witness: current a1b2c3d, fetched a1b2c3d, reported as not newer
C16_Witness ==
    /\ Reported
    /\ p_channel = ChNightly /\ g_citron_hash = HashA
    /\ p_emitted[1].version = HashA
    /\ ~p_emitted[1].is_newer_version

\* the positions of the title at which HashMinLen hexadecimal characters begin
HexStarts(t) ==
    {i \in 1..Len(t) :
        /\ i + HashMinLen - 1 <= Len(t)
        /\ \A k \in 0..(HashMinLen - 1) : IsHex(t[i + k])}

\* C17: for a Nightly record the candidate version is the first run of 7 to 40
\* hexadecimal characters of the title: it starts at the first position where
\* 7 hexadecimal characters begin and extends over the hexadecimal characters
\* that follow, up to 40; a title without 7 hexadecimal characters in a row
\* yields no version. "Nightly Build - a1b2c3d" gives "a1b2c3d".
C17_FirstHexRunIsVersion ==
    (p_pc = "done" /\ p_channel = ChNightly /\ Len(Feed) = 1) =>
        LET t == Feed[1].name
        IN  IF HexStarts(t) = {} THEN p_emitted = <<>>
            ELSE /\ p_emitted # <<>>
                 /\ LET i == FirstOf(HexStarts(t))
                        v == p_emitted[1].version
                        n == Len(v)
                    IN  /\ n >= HashMinLen /\ n <= HashMaxLen
                        /\ i + n - 1 <= Len(t)
                        /\ v = SubSeq(t, i, i + n - 1)
                        /\ n = HashMaxLen \/ i + n > Len(t) \/ ~IsHex(t[i + n])
                        /\ t = TitleA => v = HashA

\* C17 witness: the example of the claim
C17_Witness ==
    /\ p_pc = "done" /\ p_channel = ChNightly /\ Len(Feed) = 1
    /\ Feed[1].name = TitleA
    /\ p_emitted # <<>> /\ p_emitted[1].version = HashA

----------------------------------------------------------------------------
(* Properties of racing callers (SpecRace) *)

\* C18: of the DownloadAndInstallUpdate calls that race from different
\* execution contexts while the state is Idle, at most one starts an attempt
\* (backup, request); no attempt ends in this specification, so a second
\* request can only come from a caller that passed the guard concurrently.
C18_GuardIsAtomic ==
    /\ Cardinality({t \in Threads : t_pc[t] = "started"}) <= 1
    /\ Cardinality({a \in AttemptIds : attempts[a].ph = "downloading"}) <= 1

----------------------------------------------------------------------------
(* Properties of the orchestrator under fairness (FairSpec) *)

\* C19: every attempt started by DownloadAndInstallUpdate eventually returns
\* the state to Idle (in-progress flag false), with no CancelUpdate needed,
\* also when the completion of a check is delivered while the download is in
\* flight.
C19_AttemptReturnsToIdle ==
    \A a \in AttemptIds :
        (attempts[a].ph = "downloading") ~> (~update_in_progress)

----------------------------------------------------------------------------
(* Properties of the terminal notifications (Spec) *)

\* C20: an attempt that is over (it ended, or its transfer was destroyed) and
\* was not cancelled has emitted exactly one terminal notification,
\* UpdateCompleted or UpdateError: not none, not more than one.
C20_ExactlyOneTerminalSignal ==
    \A a \in AttemptIds :
        attempts[a].ph \in {"ended", "lost"} /\ attempts[a].cancelled = "no"
            => /\ Len(signals.att[a]) = 1
               /\ signals.att[a][1].sig \in {"UpdateCompleted", "UpdateError"}

----------------------------------------------------------------------------
(* Properties of the installed payload (Spec) *)

\* C21: what is staged or installed is the payload of a transfer that finished
\* without error: the bytes received so far of a transfer still in flight are
\* never staged or put in place of the executable, also after a CancelUpdate
\* followed by a new DownloadAndInstallUpdate.
C21_OnlyFinishedTransferInstalled ==
    /\ files.staging.content.k # "partial"
    /\ files.exe.k # "partial"

\* C22: on the direct-replace strategy UpdateCompleted(Success) is emitted for
\* an attempt only if its downloaded bytes were written to the sibling file and
\* renamed over the running binary.
C22_SuccessOnlyAfterReplace ==
    \A a \in AttemptIds :
        (platform = "linux" /\ HasSuccess(a))
            => attempts[a].wrote

\* C23: on the direct-replace strategy the path of the running binary holds at
\* every point either the complete old binary or the complete payload of an
\* attempt, and an attempt that reported a failed rename left the old binary
\* in place.
C23_BinaryIsOldOrCompleteNew ==
    platform = "linux" =>
        /\ files.exe = Original \/ \E a \in AttemptIds : files.exe = Payload(a)
        /\ \A a \in AttemptIds :
              (HasSignal(a, "UpdateError", "none") /\ ~attempts[a].wrote)
                  => (files.exe # Payload(a))

\* C24: when InstallUpdate returns true the staging directory holds exactly the
\* regular files of the extraction directory, at the same relative paths, and
\* the helper script, with nothing left from an earlier attempt; when a copy
\* fails InstallUpdate returns false.
C24_StagingExactlyExtracted ==
    inst.pc = "done" =>
        /\ inst.ret => inst.staging = FilesOf(inst.u_p.files, "new")
                                        \cup FilesOf({ScriptPath}, "script")
        /\ inst.fails # {} => ~inst.ret

\* the second half of C24 on its own: a failed copy fails the install step
C24_CopyFailureFailsInstall ==
    (inst.pc = "done" /\ inst.fails # {}) => ~inst.ret

\* C25: a feed record from which no version string can be derived is never
\* reported, whatever its assets: every ReleaseInfo reported by
\* ParseUpdateResponse, and the one it stores, has a non-empty version and
\* comes from a record that yields one.
C25_UnversionedRecordSkipped ==
    ParseDone =>
        \A k \in 1..Len(p_emitted) :
            /\ p_emitted[k].version # <<>>
            /\ Versioned(p_emitted[k].index)
            /\ current_update_info.version # <<>>

\* C25 witness: the first record has a compatible asset and no version, and
\* the second record is the one reported
C25_Witness ==
    /\ ParseDone
    /\ Len(Feed) >= 2
    /\ ~Versioned(1) /\ Selectable(1)
    /\ Len(p_emitted) = 1 /\ p_emitted[1].index = 2

----------------------------------------------------------------------------
(* Properties of the helper script (SpecHelper, FairHelper) *)

\* the script has reached the step
Reached(name) == \E i \in 1..Len(helper.steps) : helper.steps[i] = name

\* C26: the helper runs the staging-to-install copy at most 3 times, with a
\* wait before each further run; an exit code of 8 or above is a copy error
\* (the copy is run again, or the helper stops), an exit code below 8 is a
\* success (the helper goes on to the verification); after the third failed
\* run the helper stops with a non-zero exit and relaunches nothing.
C26_CopyRetriedUpToThreeTimes ==
    /\ helper.copies <= 3
    /\ (helper.pc = "copy_loop" /\ helper.copies > 0) =>
           /\ helper.robocopy_exit >= 8
           /\ helper.copies < 3
           /\ helper.copy_waits = helper.copies
    /\ (helper.pc = "verify" \/ Reached("verify")) => helper.robocopy_exit < 8
    /\ (helper.copies > 0 /\ helper.robocopy_exit < 8) =>
           (Reached("verify") \/ helper.pc = "verify")
    /\ (helper.copies = 3 /\ helper.robocopy_exit >= 8) =>
           /\ helper.pc = "exited"
           /\ helper.exit > 0
           /\ ~helper.relaunched
           /\ ~Reached("verify")

\* C26 witness: three failed runs of the copy, and the helper has stopped
C26_Witness ==
    /\ helper.copies = 3
    /\ helper.copy_waits = 2
    /\ helper.robocopy_exit >= 8
    /\ helper.pc = "exited" /\ helper.exit = 1

StepOrder == <<"wait", "attrib", "copy", "verify", "relaunch", "cleanup", "self_delete">>

\* C27: the helper runs wait-for-exit, clear attributes, copy, verify,
\* relaunch, cleanup, self-delete in this order; it relaunches the application
\* only after a successful copy and after citron.exe was seen to exist; when
\* the file is missing it stops with a non-zero exit and never relaunches.
C27_StepsInOrder ==
    /\ Len(helper.steps) <= Len(StepOrder)
    /\ helper.steps = SubSeq(StepOrder, 1, Len(helper.steps))
    /\ (helper.relaunched \/ helper.pc = "relaunch") =>
           /\ Reached("copy") /\ helper.robocopy_exit < 8
           /\ Reached("verify") /\ helper.exe_seen
    /\ (Reached("verify") /\ ~helper.exe_seen) =>
           /\ helper.pc = "exited"
           /\ helper.exit > 0
           /\ ~helper.relaunched
           /\ ~Reached("relaunch")

\* C27 witness: a complete run, all seven steps, the application relaunched
C27_Witness ==
    /\ helper.steps = StepOrder
    /\ helper.relaunched
    /\ helper.pc = "exited" /\ helper.exit = 0

\* C28: the wait-for-exit loop always terminates: the helper waits 1 second
\* after a poll that finds the host process running, at most 60 times (so it
\* polls at most 61 times); when the process is still running after the 60th
\* wait it goes on to the following steps with a warning, and it warns in no
\* other case.
C28_WaitLoopBounded ==
    /\ [](/\ helper.waits <= 60
          /\ helper.polls <= helper.waits + 1
          /\ helper.pc = "wait_loop" => helper.waits = helper.polls
          /\ helper.warned <=> (helper.wait_count > 60)
          /\ helper.warned => (helper.waits = 60 /\ helper.pc # "wait_loop"))
    /\ (helper.pc = "wait_loop") ~> Reached("attrib")

\* C28 witness: the process never exits; after 60 waits the helper leaves the
\* loop with the warning
C28_Witness ==
    /\ helper.warned
    /\ helper.waits = 60
    /\ Reached("attrib")

\* C29: the helper runs the removal of the staging directory at most 5
\* times, with a wait before each further run, and the cleanup loop always
\* terminates: whether or not the directory is still present the helper
\* reports no error, deletes itself and exits with status 0.
C29_CleanupBounded ==
    /\ [](/\ helper.rds <= 5
          /\ helper.pc = "cleanup_loop" => helper.cleanup_waits = helper.rds
          /\ Reached("cleanup") => helper.exit \in {-1, 0}
          /\ (Reached("cleanup") /\ helper.pc \in {"self_delete", "exited"}) =>
                 (helper.staging_exists <=> helper.cleanup_retries = 5)
          /\ (Reached("cleanup") /\ helper.pc = "exited") =>
                 (helper.exit = 0 /\ ~helper.self_exists))
    /\ (helper.pc = "cleanup_loop") ~>
           (helper.pc = "exited" /\ helper.exit = 0 /\ ~helper.self_exists)

\* C29 witness: five removals failed, the directory is still present, and the
\* helper deleted itself and exited with status 0
C29_Witness ==
    /\ helper.rds = 5
    /\ helper.cleanup_waits = 4
    /\ helper.staging_exists
    /\ ~helper.self_exists
    /\ helper.pc = "exited" /\ helper.exit = 0

----------------------------------------------------------------------------
(* Properties of the backup slot (SpecBackup) *)

\* C30: a CreateBackup that returns true leaves the slot equal to the
\* installed executable; a RestoreBackup that returns true has copied the slot
\* over the installed executable; with no backup RestoreBackup returns false
\* and leaves the installed executable as it was. So after a RestoreBackup
\* that returns true the installed executable is what it was at the most
\* recent successful CreateBackup, never at an earlier one.
C30_RestoreGivesLastSnapshot ==
    /\ (bk.op = "snapshot" /\ bk.ret) =>
           /\ files.backup = bk.exe_before
           /\ files.exe = bk.exe_before
    /\ (bk.op = "restore" /\ bk.ret) =>
           /\ bk.slot_before # Missing
           /\ files.exe = bk.slot_before
           /\ files.backup = bk.slot_before
           /\ files.exe = bk.snap
    /\ (bk.op = "restore" /\ bk.slot_before = Missing) =>
           /\ ~bk.ret
           /\ files.exe = bk.exe_before
    /\ files.backup = bk.snap

\* C30 witness: two snapshots of different executables, the executable
\* replaced once more, and a restore that brings back the second snapshot
C30_Witness ==
    /\ bk.op = "restore" /\ bk.ret
    /\ bk.older # {} /\ bk.snap \notin bk.older
    /\ bk.exe_before # bk.snap
    /\ files.exe = bk.snap

----------------------------------------------------------------------------
(* Properties of the progress notification (SpecProgress) *)

\* the reported percentage is floor(received * 100 / total) and lies in 0..100
FloorPercentage ==
    /\ prog.last.pct \in 0..100
    /\ Leq(Scale(prog.last.t, prog.last.pct), Scale(prog.last.r, 100))
    /\ ~Leq(Scale(prog.last.t, prog.last.pct + 1), Scale(prog.last.r, 100))

C31_FloorWithoutOverflow ==
    (prog.chunks > 0 /\ prog.last.emitted /\ Leq(Scale(prog.r.mag, 100), Int64Max)) =>
        FloorPercentage

====
